---- MODULE Spec2Model ----
(***************************************************************************)
(* A model of ContentBlocksBuilder (convertFromHTMLToContentBlocks2.js):   *)
(* the recursive walk over DOM nodes that builds a forest of               *)
(* ContentBlockConfigs, and the two materializers (hierarchical and flat). *)
(*                                                                         *)
(* Strings are sequences of UTF-16 code units, so that .length, slice and  *)
(* trim are computed as JavaScript computes them.  A DOM node is a record  *)
(* holding the properties the code reads.                                  *)
(***************************************************************************)
EXTENDS Integers, Sequences, FiniteSets, TLC

VARIABLES
  characterList,      \* this.characterList
  blockConfigs,       \* this.blockConfigs
  currentBlockType,   \* this.currentBlockType
  currentDepth,       \* this.currentDepth
  currentEntity,      \* this.currentEntity
  currentStyle,       \* this.currentStyle
  currentText,        \* this.currentText
  entityMap,          \* this.entityMap, the DraftEntity registry
  wrapper,            \* this.wrapper
  contentBlocks,      \* this.contentBlocks
  experimentalTreeDataSupport,  \* gkx('draft_tree_data_support')
  nextKey,            \* state of generateRandomKey
  trace,              \* history: the accumulator steps of the last addDOMNode
  returned,           \* history: what the last getContentBlocks returned
  lastCall,           \* history: the last operation called (clear starts
                      \* the histories afresh)
  cacheDropped,       \* history: the last addDOMNode emptied a filled
                      \* this.contentBlocks
  lastNode,           \* history: the argument of the last addDOMNode
  nodesUsed,          \* history: DOM nodes handed to the builder so far
  converted,          \* history: what the last convertFromHTMLtoContentBlocks
                      \* returned: "null" or "blocks" ("none" before a call)
  forestBefore        \* history: this.blockConfigs.length before the last
                      \* addDOMNode

vars == <<characterList, blockConfigs, currentBlockType, currentDepth,
          currentEntity, currentStyle, currentText, entityMap, wrapper,
          contentBlocks, experimentalTreeDataSupport, nextKey, trace,
          returned, lastCall, cacheDropped, lastNode, nodesUsed, converted,
          forestBefore>>

----------------------------------------------------------------------------
(* Bounds *)

\* DOM nodes handed to one builder over its life
MaxNodes == 3

\* the same, for a builder fed with links and images
MaxEntityNodes == 4

----------------------------------------------------------------------------
(* Values *)

NULL == 0
UNDEFINED == "undefined"

SPACE == " "
LF == "\n"
\* the two UTF-16 code units of '📷'
CAMERA == <<"D83D", "DCF7">>

\* what String.prototype.trim / trimLeft / trimRight remove
WhiteSpace == {SPACE, LF}

Min(a, b) == IF a < b THEN a ELSE b
Max(a, b) == IF a > b THEN a ELSE b

\* Array.prototype.slice / List.slice / String.slice for 0 <= begin
Slice(s, begin, end) ==
  LET e == Min(end, Len(s))
  IN  IF begin >= e THEN <<>> ELSE [i \in 1..(e - begin) |-> s[begin + i]]

RECURSIVE TrimLeft(_)
TrimLeft(s) ==
  IF s # <<>> /\ Head(s) \in WhiteSpace THEN TrimLeft(Tail(s)) ELSE s

RECURSIVE TrimRight(_)
TrimRight(s) ==
  IF s # <<>> /\ s[Len(s)] \in WhiteSpace
  THEN TrimRight(SubSeq(s, 1, Len(s) - 1)) ELSE s

Trim(s) == TrimRight(TrimLeft(s))

\* text.replace(REGEX_LF, SPACE)
ReplaceLF(s) == [i \in 1..Len(s) |-> IF s[i] = LF THEN SPACE ELSE s[i]]

HTMLTagToInlineStyleMap ==
  [b |-> "BOLD", code |-> "CODE", del |-> "STRIKETHROUGH", em |-> "ITALIC",
   i |-> "ITALIC", s |-> "STRIKETHROUGH", strike |-> "STRIKETHROUGH",
   strong |-> "BOLD", u |-> "UNDERLINE"]

boldValues == {"bold", "bolder", "500", "600", "700", "800", "900"}
notBoldValues == {"light", "lighter", "100", "200", "300", "400"}

knownListItemDepthClasses ==
  [depth0 |-> 0, depth1 |-> 1, depth2 |-> 2, depth3 |-> 3, depth4 |-> 4]

\* the BlockTypeMap of the default BlockRenderMap
BlockTypeMap ==
  [h1 |-> [isString |-> TRUE, value |-> "header-one"],
   h2 |-> [isString |-> TRUE, value |-> "header-two"],
   h3 |-> [isString |-> TRUE, value |-> "header-three"],
   h4 |-> [isString |-> TRUE, value |-> "header-four"],
   h5 |-> [isString |-> TRUE, value |-> "header-five"],
   h6 |-> [isString |-> TRUE, value |-> "header-six"],
   blockquote |-> [isString |-> TRUE, value |-> "blockquote"],
   figure |-> [isString |-> TRUE, value |-> "atomic"],
   pre |-> [isString |-> FALSE, value |-> <<"code-block">>],
   div |-> [isString |-> TRUE, value |-> "unstyled"],
   p |-> [isString |-> TRUE, value |-> "unstyled"],
   li |-> [isString |-> FALSE,
           value |-> <<"ordered-list-item", "unordered-list-item">>]]

\* the disambiguate function handed to the builder
disambiguate(tag, wrap) ==
  IF tag = "li"
  THEN (IF wrap = "ol" THEN "ordered-list-item" ELSE "unordered-list-item")
  ELSE UNDEFINED

----------------------------------------------------------------------------
(* DOM nodes *)

NoStyle == [fontWeight |-> "", fontStyle |-> "", textDecoration |-> ""]

\* an element: nodeName is the lower-cased tag
Element(name, classList, src, href, protocol, style, kids) ==
  [nodeName |-> name, classList |-> classList, src |-> src, href |-> href,
   protocol |-> protocol, style |-> style, textContent |-> <<>>,
   childNodes |-> kids]

\* a text node
TextNode(content) ==
  [nodeName |-> "#text", classList |-> {}, src |-> "", href |-> "",
   protocol |-> "", style |-> NoStyle, textContent |-> content,
   childNodes |-> <<>>]

\* no node: before the first addDOMNode
NoNode == TextNode(<<>>)

IsHTMLElement(node) == node.nodeName # "#text"

getListItemDepth(node) ==
  LET hits == {c \in DOMAIN knownListItemDepthClasses : c \in node.classList}
  IN  IF hits = {} THEN 0
      ELSE knownListItemDepthClasses[
             CHOOSE c \in hits :
               \A d \in hits :
                 knownListItemDepthClasses[d] <= knownListItemDepthClasses[c]]

isValidAnchor(node) ==
  /\ node.nodeName = "a"
  /\ node.href # ""
  /\ node.protocol \in {"http:", "https:", "mailto:"}

isValidImage(node) ==
  /\ node.nodeName = "img"
  /\ node.src # ""

----------------------------------------------------------------------------
(* The builder's accumulator.  The operators below take the builder `b`    *)
(* (a record of its fields) and return the builder after the call.         *)
(* b.openStyleTags, b.openLinks and b.trace are history fields: the styles *)
(* of the inline-style elements and the entities of the links the walk is  *)
(* inside of, and the accumulator before and after each step.              *)
(* b.openMalformed holds, for each a or img element the walk is inside of  *)
(* that is no valid link or image, the entity current on entering it, and  *)
(* NULL for each valid link the walk is inside of.                         *)

\* DraftEntity.__create: the new entity's id is its position in the registry
DraftEntity__create(map, type, mutability, data) ==
  [entityMap |-> Append(map, [type |-> type, mutability |-> mutability,
                              data |-> data]),
   id |-> Len(map) + 1]

\* CharacterMetadata.create, with the history of where the character was
\* appended
CharacterMetadata(b) ==
  [style |-> b.currentStyle, entity |-> b.currentEntity,
   inStyleTags |-> {b.openStyleTags[i] : i \in DOMAIN b.openStyleTags},
   inLink |-> IF b.openLinks = <<>> THEN NULL
              ELSE b.openLinks[Len(b.openLinks)],
   inMalformed |-> IF b.openMalformed = <<>> THEN NULL
                   ELSE b.openMalformed[Len(b.openMalformed)]]

Accumulator(b) == [text |-> b.currentText, characterList |-> b.characterList]

Traced(op, before, after) ==
  [after EXCEPT !.trace = Append(@, [op |-> op, before |-> Accumulator(before),
                                     after |-> Accumulator(after)])]

addStyle(b, inlineStyle) ==
  [b EXCEPT !.currentStyle = @ \cup {inlineStyle}]

removeStyle(b, inlineStyle) ==
  [b EXCEPT !.currentStyle = @ \ {inlineStyle}]

\* _appendText pushing one CharacterMetadata whatever the length of the text
_appendText_oneMetadata(b, text) ==
  LET characterMetadata == CharacterMetadata(b)
  IN  Traced("_appendText", b,
        [b EXCEPT !.currentText = @ \o text,
                  !.characterList = Append(@, characterMetadata)])

_appendText(b, text) ==
  LET characterMetadata == CharacterMetadata(b)
  IN  Traced("_appendText", b,
        [b EXCEPT !.currentText = @ \o text,
                  !.characterList =
                     @ \o [i \in 1..Len(text) |-> characterMetadata]])

\* List.findEntry(m => m.getEntity() !== null): <<index, value>> with a
\* 0-based index, or <<>> for undefined
findEntry(list) ==
  LET hits == {i \in 1..Len(list) : list[i].entity # NULL}
      i == CHOOSE h \in hits : \A j \in hits : h <= j
  IN  IF hits = {} THEN <<>> ELSE <<i - 1, list[i]>>

Reverse(list) == [i \in 1..Len(list) |-> list[Len(list) + 1 - i]]

\* _trimCurrentText without the two entity look-ups
_trimCurrentText_ignoringEntities(b) ==
  LET l == Len(b.currentText)
      begin == l - Len(TrimLeft(b.currentText))
      end == Len(TrimRight(b.currentText))
  IN  Traced("_trimCurrentText", b,
        IF begin > end
        THEN [b EXCEPT !.currentText = <<>>, !.characterList = <<>>]
        ELSE [b EXCEPT !.currentText = Slice(@, begin, end),
                       !.characterList = Slice(@, begin, end)])

\* _trimCurrentText trimming on the left only
_trimCurrentText_leftOnly(b) ==
  LET l == Len(b.currentText)
      begin0 == l - Len(TrimLeft(b.currentText))
      entity0 == findEntry(b.characterList)
      begin == IF entity0 # <<>> THEN Min(begin0, entity0[1]) ELSE begin0
  IN  Traced("_trimCurrentText", b,
        [b EXCEPT !.currentText = Slice(@, begin, l),
                  !.characterList = Slice(@, begin, l)])

_trimCurrentText(b) ==
  LET l == Len(b.currentText)
      begin0 == l - Len(TrimLeft(b.currentText))
      end0 == Len(TrimRight(b.currentText))
      entity0 == findEntry(b.characterList)
      begin == IF entity0 # <<>> THEN Min(begin0, entity0[1]) ELSE begin0
      entity1 == findEntry(Reverse(b.characterList))
      end == IF entity1 # <<>> THEN Max(end0, l - entity1[1]) ELSE end0
  IN  Traced("_trimCurrentText", b,
        IF begin > end
        THEN [b EXCEPT !.currentText = <<>>, !.characterList = <<>>]
        ELSE [b EXCEPT !.currentText = Slice(@, begin, end),
                       !.characterList = Slice(@, begin, end)])

\* an argument object with no property
NoConfig == [f \in {} |-> NULL]

\* generateRandomKey: keys are unique
generateRandomKey(b) == [key |-> b.nextKey, b |-> [b EXCEPT !.nextKey = @ + 1]]

\* returns the new ContentBlockConfig and the builder; block.pending is a
\* history field: the config was made of pending text, by a call without
\* argument
_makeBlockConfig(b, config) ==
  LET hasKey == "key" \in DOMAIN config /\ config.key # NULL
      gen == generateRandomKey(b)
      key == IF hasKey THEN config.key ELSE gen.key
      b1 == IF hasKey THEN b ELSE gen.b
      defaults ==
        [key |-> key, type |-> b.currentBlockType, text |-> b.currentText,
         characterList |-> b.characterList, depth |-> b.currentDepth,
         parent |-> NULL, children |-> <<>>, prevSibling |-> NULL,
         nextSibling |-> NULL, childConfigs |-> <<>>,
         pending |-> config = NoConfig]
      block == [f \in DOMAIN defaults |->
                  IF f \in DOMAIN config THEN config[f] ELSE defaults[f]]
  IN  [block |-> block,
       b |-> [b1 EXCEPT !.characterList = <<>>,
                        !.currentBlockType = "unstyled",
                        !.currentDepth = 0,
                        !.currentText = <<>>]]

_addTextNode(b, node) ==
  LET text0 == node.textContent
      trimmedText == Trim(text0)
      text1 == IF trimmedText = <<>> /\ b.wrapper # "pre"
               THEN <<SPACE>> ELSE text0
      text2 == IF b.wrapper # "pre" THEN ReplaceLF(text1) ELSE text1
  IN  _appendText(b, text2)

_addImgNode(b, node) ==
  IF node.nodeName # "img" THEN b
  ELSE LET created == DraftEntity__create(b.entityMap, "IMAGE", "MUTABLE",
                                          [src |-> node.src])
           b1 == [b EXCEPT !.entityMap = created.entityMap,
                           !.currentEntity = created.id]
           b2 == _appendText(b1, CAMERA)
       IN  [b2 EXCEPT !.currentEntity = NULL]

_updateStyleFromNodeAttributes(b, node) ==
  IF ~IsHTMLElement(node) THEN b
  ELSE LET fontWeight == node.style.fontWeight
           fontStyle == node.style.fontStyle
           textDecoration == node.style.textDecoration
           b1 == IF fontWeight \in boldValues THEN addStyle(b, "BOLD")
                 ELSE IF fontWeight \in notBoldValues
                      THEN removeStyle(b, "BOLD") ELSE b
           b2 == IF fontStyle = "italic" THEN addStyle(b1, "ITALIC")
                 ELSE IF fontStyle = "normal"
                      THEN removeStyle(b1, "ITALIC") ELSE b1
           b3 == IF textDecoration = "underline"
                 THEN addStyle(b2, "UNDERLINE") ELSE b2
           b4 == IF textDecoration = "line-through"
                 THEN addStyle(b3, "STRIKETHROUGH") ELSE b3
       IN  IF textDecoration = "none"
           THEN removeStyle(removeStyle(b4, "UNDERLINE"), "STRIKETHROUGH")
           ELSE b4

----------------------------------------------------------------------------
(* The walk: _toBlockConfigs and _addAnchorNode call each other.  Each     *)
(* returns [blockConfigs, b]: the array of configs and the builder.  A     *)
(* value the code keeps in a local variable is handed on as an argument.   *)

RECURSIVE _toBlockConfigs(_, _)
RECURSIVE _addAnchorNode(_, _, _)
RECURSIVE VisitNodes(_, _, _, _)

\* blockConfigs.push(this._makeBlockConfig())
PushMade(configs, made) ==
  [blockConfigs |-> Append(configs, made.block), b |-> made.b]

\* blockConfigs.push(this._makeBlockConfig()) without the test
PushIfText_always(b, configs) ==
  PushMade(configs, _makeBlockConfig(b, NoConfig))

\* if (this.currentText !== '') blockConfigs.push(this._makeBlockConfig())
PushIfText(b, configs) ==
  IF b.currentText # <<>>
  THEN PushMade(configs, _makeBlockConfig(b, NoConfig))
  ELSE [blockConfigs |-> configs, b |-> b]

\* "create a block config with the text accumulated so far (if any)"
FlushPendingText(b, configs) == PushIfText(_trimCurrentText(b), configs)

\* body, ol and ul leaving this.wrapper as the children left it
LeaveContainer_keepingWrapper(flushed, kids) ==
  [blockConfigs |-> flushed.blockConfigs \o kids.blockConfigs, b |-> kids.b]

\* body, ol and ul, after the children: the wrapper is restored
LeaveContainer(flushed, kids) ==
  [blockConfigs |-> flushed.blockConfigs \o kids.blockConfigs,
   b |-> [kids.b EXCEPT !.wrapper = flushed.b.wrapper]]

\* body, ol and ul, after the pending text is flushed
EnterContainer(node, flushed) ==
  LeaveContainer(flushed,
    _toBlockConfigs(node.childNodes,
      IF node.nodeName \in {"ol", "ul"}
      THEN [flushed.b EXCEPT !.wrapper = node.nodeName] ELSE flushed.b))

\* body, ol and ul: ignored, their children are inlined
VisitContainer(node, configs, b) ==
  EnterContainer(node, FlushPendingText(b, configs))

\* a block element leaving this.wrapper as the children left it
PushBlock_keepingWrapper(flushed, made) ==
  [blockConfigs |-> Append(flushed.blockConfigs, made.block),
   b |-> [made.b EXCEPT !.currentDepth = flushed.b.currentDepth]]

\* a block element, after its config is made: depth and wrapper are restored
PushBlock(flushed, made) ==
  [blockConfigs |-> Append(flushed.blockConfigs, made.block),
   b |-> [made.b EXCEPT !.currentDepth = flushed.b.currentDepth,
                        !.wrapper = flushed.b.wrapper]]

\* a block element, after the children
LeaveBlock(flushed, blockType, key, kids) ==
  PushBlock(flushed,
    _makeBlockConfig(_trimCurrentText(kids.b),
      [key |-> key, childConfigs |-> kids.blockConfigs, type |-> blockType]))

\* a block element, once its key is generated
WalkBlock(node, flushed, blockType, gen) ==
  LeaveBlock(flushed, blockType, gen.key,
             _toBlockConfigs(node.childNodes, gen.b))

\* a block element, after the pending text is flushed
EnterBlock(node, flushed) ==
  LET entry == BlockTypeMap[node.nodeName]
      b1 == [flushed.b EXCEPT
               !.wrapper = IF node.nodeName = "pre" THEN "pre" ELSE @]
      picked == disambiguate(node.nodeName, b1.wrapper)
      blockType ==
        IF entry.isString THEN entry.value
        ELSE IF picked # UNDEFINED THEN picked
        ELSE IF entry.value # <<>> THEN entry.value[1]
        ELSE "unstyled"
  IN  WalkBlock(node, flushed, blockType,
        generateRandomKey(
          IF /\ experimentalTreeDataSupport
             /\ IsHTMLElement(node)
             /\ blockType \in {"unordered-list-item", "ordered-list-item"}
          THEN [b1 EXCEPT !.currentDepth = getListItemDepth(node)]
          ELSE b1))

\* a node whose tag is in the blockTypeMap
VisitBlock(node, configs, b) ==
  EnterBlock(node, FlushPendingText(b, configs))

\* any other element, after the children
LeaveInline(node, configs, kids) ==
  [blockConfigs |-> configs \o kids.blockConfigs,
   b |-> _updateStyleFromNodeAttributes(
           IF node.nodeName \in DOMAIN HTMLTagToInlineStyleMap
           THEN [removeStyle(kids.b, HTMLTagToInlineStyleMap[node.nodeName])
                   EXCEPT !.openStyleTags = SubSeq(@, 1, Len(@) - 1)]
           ELSE IF node.nodeName \in {"a", "img"}
           THEN [kids.b EXCEPT !.openMalformed = SubSeq(@, 1, Len(@) - 1)]
           ELSE kids.b,
           node)]

\* any other element: an inline-style tag, or a transparent element
VisitInline(node, configs, b) ==
  LeaveInline(node, configs,
    _toBlockConfigs(node.childNodes,
      IF node.nodeName \in DOMAIN HTMLTagToInlineStyleMap
      THEN [addStyle(b, HTMLTagToInlineStyleMap[node.nodeName])
              EXCEPT !.openStyleTags =
                       Append(@, HTMLTagToInlineStyleMap[node.nodeName])]
      ELSE IF node.nodeName \in {"a", "img"}
      THEN [b EXCEPT !.openMalformed = Append(@, b.currentEntity)]
      ELSE b))

\* one iteration of the loop of _toBlockConfigs
VisitNode(node, configs, b) ==
  IF node.nodeName \in {"body", "ol", "ul"}
    THEN VisitContainer(node, configs, b)
  ELSE IF node.nodeName \in DOMAIN BlockTypeMap
    THEN VisitBlock(node, configs, b)
  ELSE IF node.nodeName = "#text"
    THEN [blockConfigs |-> configs, b |-> _addTextNode(b, node)]
  ELSE IF isValidImage(node)
    THEN [blockConfigs |-> configs, b |-> _addImgNode(b, node)]
  ELSE IF isValidAnchor(node)
    THEN _addAnchorNode(node, configs, b)
  ELSE VisitInline(node, configs, b)

\* the loop of _toBlockConfigs after the iteration for nodes[i]
VisitNext(nodes, i, visited) ==
  VisitNodes(nodes, i + 1, visited.blockConfigs, visited.b)

\* the loop of _toBlockConfigs, from nodes[i] on
VisitNodes(nodes, i, configs, b) ==
  IF i > Len(nodes) THEN [blockConfigs |-> configs, b |-> b]
  ELSE VisitNext(nodes, i, VisitNode(nodes[i], configs, b))

_toBlockConfigs(nodes, b) == VisitNodes(nodes, 1, <<>>, b)

\* a link, after the children
LeaveAnchor(configs, kids) ==
  [blockConfigs |-> configs \o kids.blockConfigs,
   b |-> [kids.b EXCEPT !.currentEntity = NULL,
                        !.openLinks = SubSeq(@, 1, Len(@) - 1),
                        !.openMalformed = SubSeq(@, 1, Len(@) - 1)]]

\* a link, once its entity is created
EnterAnchor(node, configs, b, created) ==
  LeaveAnchor(configs,
    _toBlockConfigs(node.childNodes,
      [b EXCEPT !.entityMap = created.entityMap,
                !.currentEntity = created.id,
                !.openLinks = Append(@, created.id),
                !.openMalformed = Append(@, NULL)]))

_addAnchorNode(node, configs, b) ==
  IF node.nodeName # "a" THEN [blockConfigs |-> configs, b |-> b]
  ELSE EnterAnchor(node, configs, b,
         DraftEntity__create(b.entityMap, "LINK", "MUTABLE",
                             [url |-> node.href]))

----------------------------------------------------------------------------
(* The materializers *)

\* new ContentBlockNode({...config}): the record keeps the fields it declares
ContentBlockNode(config) ==
  [key |-> config.key, type |-> config.type, text |-> config.text,
   characterList |-> config.characterList, depth |-> config.depth,
   parent |-> config.parent, children |-> config.children,
   prevSibling |-> config.prevSibling, nextSibling |-> config.nextSibling]

\* new ContentBlock({...config})
ContentBlock(config) ==
  [key |-> config.key, type |-> config.type, text |-> config.text,
   characterList |-> config.characterList, depth |-> config.depth]

\* config[name], undefined when the object has no such property
Property(config, name) ==
  IF name \in DOMAIN config THEN config[name] ELSE UNDEFINED

\* List.last()
ListLast(list) == IF list = <<>> THEN UNDEFINED ELSE list[Len(list)]

RECURSIVE _toContentBlocks(_, _, _)
RECURSIVE ToContentBlocksFrom(_, _, _, _)

\* config as one iteration of the loop of _toContentBlocks sets it
Linked(configs, i, parent) ==
  [configs[i + 1] EXCEPT
     !.parent = parent,
     !.prevSibling = IF i > 0 THEN configs[i].key ELSE NULL,
     !.nextSibling = IF i < Len(configs) - 1 THEN configs[i + 2].key ELSE NULL,
     !.children = [k \in 1..Len(configs[i + 1].childConfigs) |->
                     configs[i + 1].childConfigs[k].key]]

\* the loop of _toContentBlocks after the recursive call for configs[i]
ToContentBlocksNext(configs, i, parent, config, below) ==
  ToContentBlocksFrom(
    [configs EXCEPT
       ![i + 1] = [config EXCEPT !.childConfigs = below.blockConfigs]],
    i + 1, parent, below.contentBlocks)

\* the iteration pushing a node after the nodes of its childConfigs
ToContentBlocksAt_childrenFirst(configs, i, parent, out, config) ==
  ToContentBlocksNext(configs, i, parent, config,
    [blockConfigs |-> config.childConfigs,
     contentBlocks |->
       Append(_toContentBlocks(config.childConfigs, config.key, out)
                .contentBlocks,
              ContentBlockNode(config))])

\* the iteration handing its own parent down to the childConfigs
ToContentBlocksAt_sameParent(configs, i, parent, out, config) ==
  ToContentBlocksNext(configs, i, parent, config,
    _toContentBlocks(config.childConfigs, parent,
                     Append(out, ContentBlockNode(config))))

\* one iteration of the loop of _toContentBlocks, config being set
ToContentBlocksAt(configs, i, parent, out, config) ==
  ToContentBlocksNext(configs, i, parent, config,
    _toContentBlocks(config.childConfigs, config.key,
                     Append(out, ContentBlockNode(config))))

\* the loop of _toContentBlocks from index i (0-based) on; `out` is
\* this.contentBlocks.  Returns the configs as the loop has changed them
\* and this.contentBlocks
ToContentBlocksFrom(configs, i, parent, out) ==
  IF i > Len(configs) - 1
  THEN [blockConfigs |-> configs, contentBlocks |-> out]
  ELSE ToContentBlocksAt(configs, i, parent, out, Linked(configs, i, parent))

_toContentBlocks(configs, parent, out) ==
  ToContentBlocksFrom(configs, 0, parent, out)

RECURSIVE _extractTextFromBlockConfigs(_)
RECURSIVE ExtractTextFrom(_, _, _, _)

\* the loop of _extractTextFromBlockConfigs after the recursive call
ExtractTextNext(configs, i, text, list, children) ==
  ExtractTextFrom(configs, i + 1, text \o children.text,
                  list \o children.characterList)

\* text and characterList after the separator test for config
Separated(config, text, list) ==
  IF text # <<>> /\ Property(config, "blockType") # "unstyled"
  THEN [text |-> Append(text, LF),
        characterList |-> Append(list, ListLast(list))]
  ELSE [text |-> text, characterList |-> list]

\* one iteration, once config's own text is appended
ExtractTextAt(configs, i, separated) ==
  ExtractTextNext(configs, i, separated.text, separated.characterList,
    _extractTextFromBlockConfigs(configs[i + 1].childConfigs))

\* the loop stopping one config early (i < l for i <= l)
ExtractTextFrom_stopEarly(configs, i, text, list) ==
  IF i >= Len(configs) - 1 THEN [text |-> text, characterList |-> list]
  ELSE ExtractTextAt(configs, i,
         Separated(configs[i + 1], text \o configs[i + 1].text,
                   list \o configs[i + 1].characterList))

\* the loop of _extractTextFromBlockConfigs from index i (0-based) on
ExtractTextFrom(configs, i, text, list) ==
  IF i > Len(configs) - 1 THEN [text |-> text, characterList |-> list]
  ELSE ExtractTextAt(configs, i,
         Separated(configs[i + 1], text \o configs[i + 1].text,
                   list \o configs[i + 1].characterList))

_extractTextFromBlockConfigs(configs) == ExtractTextFrom(configs, 0, <<>>, <<>>)

\* the ContentBlock of one iteration of the loop of _toFlatContentBlocks
FlatContentBlock(config, extracted) ==
  ContentBlock([config EXCEPT
    !.text = @ \o extracted.text,
    !.characterList = @ \o extracted.characterList])

\* _toFlatContentBlocks going on into the childConfigs
RECURSIVE _toFlatContentBlocks_withChildren(_, _)
_toFlatContentBlocks_withChildren(configs, out) ==
  IF configs = <<>> THEN out
  ELSE _toFlatContentBlocks_withChildren(Tail(configs),
         _toFlatContentBlocks_withChildren(Head(configs).childConfigs,
           Append(out,
             FlatContentBlock(Head(configs),
               _extractTextFromBlockConfigs(Head(configs).childConfigs)))))

_toFlatContentBlocks(configs, out) ==
  out \o
  [i \in 1..Len(configs) |->
     FlatContentBlock(configs[i],
       _extractTextFromBlockConfigs(configs[i].childConfigs))]

----------------------------------------------------------------------------
(* The DOM trees handed to addDOMNode: every tree of at most MaxNodes      *)
(* nodes over the elements and text nodes below.  A tree is drawn from one *)
(* of two families, block structure or inline content.                     *)

Tag(name) == Element(name, {}, "", "", "", NoStyle, <<>>)

TextNodes ==
  {TextNode(<<"x">>), TextNode(<<SPACE, SPACE, SPACE>>),
   TextNode(<<SPACE, "x", LF>>)}

StructureElements ==
  {Tag("ul"), Tag("ol"), Tag("li"), Tag("p"), Tag("h1"), Tag("pre"),
   Element("li", {"depth2"}, "", "", "", NoStyle, <<>>)}

InlineElements ==
  {Tag("p"), Tag("b"), Tag("strong"),
   Element("a", {}, "", "http://x.com/", "http:", NoStyle, <<>>),
   Element("a", {}, "", "javascript:x", "javascript:", NoStyle, <<>>),
   Element("span", {}, "", "", "",
           [NoStyle EXCEPT !.fontWeight = "bold"], <<>>)}

\* img is a void element: it has no child
Images ==
  {Element("img", {}, "a.png", "", "", NoStyle, <<>>), Tag("img")}

RECURSIVE TreesOfSize(_, _, _)
RECURSIVE ForestsOfSize(_, _, _)

TreesOfSize(elements, leaves, n) ==
  IF n = 1 THEN elements \cup leaves
  ELSE {[e EXCEPT !.childNodes = f] :
          e \in elements, f \in ForestsOfSize(elements, leaves, n - 1)}

ForestsOfSize(elements, leaves, n) ==
  IF n = 0 THEN {<<>>}
  ELSE UNION {{<<t>> \o f : t \in TreesOfSize(elements, leaves, k),
                            f \in ForestsOfSize(elements, leaves, n - k)} :
              k \in 1..n}

Trees ==
  [n \in 1..MaxNodes |->
     TreesOfSize(StructureElements, TextNodes, n)
       \cup TreesOfSize(InlineElements, TextNodes \cup Images, n)]

RECURSIVE Size(_)
RECURSIVE SizeOfAll(_)
Size(node) == 1 + SizeOfAll(node.childNodes)
SizeOfAll(nodes) ==
  IF nodes = <<>> THEN 0 ELSE Size(Head(nodes)) + SizeOfAll(Tail(nodes))

----------------------------------------------------------------------------
(* The builder's operations *)

\* the builder as the walk takes it
Builder ==
  [characterList |-> characterList, currentBlockType |-> currentBlockType,
   currentDepth |-> currentDepth, currentEntity |-> currentEntity,
   currentStyle |-> currentStyle, currentText |-> currentText,
   entityMap |-> entityMap, wrapper |-> wrapper, nextKey |-> nextKey,
   trace |-> <<>>, openStyleTags |-> <<>>, openLinks |-> <<>>,
   openMalformed |-> <<>>]

\* new ContentBlocksBuilder(blockTypeMap, disambiguate)
Init ==
  /\ characterList = <<>>
  /\ blockConfigs = <<>>
  /\ currentBlockType = "unstyled"
  /\ currentDepth = 0
  /\ currentEntity = NULL
  /\ currentStyle = {}
  /\ currentText = <<>>
  /\ entityMap = <<>>
  /\ wrapper = "ul"
  /\ contentBlocks = <<>>
  /\ experimentalTreeDataSupport \in BOOLEAN
  /\ nextKey = 1
  /\ trace = <<>>
  /\ returned = <<>>
  /\ lastCall = "new"
  /\ cacheDropped = FALSE
  /\ lastNode = NoNode
  /\ nodesUsed = 0
  /\ converted = "none"
  /\ forestBefore = 0

\* clear starting a new registry
clear_droppingEntities ==
  /\ characterList' = <<>>
  /\ blockConfigs' = <<>>
  /\ currentBlockType' = "unstyled"
  /\ currentDepth' = 0
  /\ currentEntity' = NULL
  /\ currentStyle' = {}
  /\ currentText' = <<>>
  /\ entityMap' = <<>>
  /\ wrapper' = "ul"
  /\ contentBlocks' = <<>>
  /\ lastCall' = "clear"
  /\ cacheDropped' = FALSE
  /\ trace' = <<>>
  /\ returned' = <<>>
  /\ lastNode' = NoNode
  /\ forestBefore' = 0
  /\ UNCHANGED <<experimentalTreeDataSupport, nextKey, nodesUsed, converted>>

clear ==
  /\ characterList' = <<>>
  /\ blockConfigs' = <<>>
  /\ currentBlockType' = "unstyled"
  /\ currentDepth' = 0
  /\ currentEntity' = NULL
  /\ currentStyle' = {}
  /\ currentText' = <<>>
  /\ entityMap' = entityMap
  /\ wrapper' = "ul"
  /\ contentBlocks' = <<>>
  /\ lastCall' = "clear"
  /\ cacheDropped' = FALSE
  /\ trace' = <<>>
  /\ returned' = <<>>
  /\ lastNode' = NoNode
  /\ forestBefore' = 0
  /\ UNCHANGED <<experimentalTreeDataSupport, nextKey, nodesUsed, converted>>

\* addDOMNode after the walk: the left-over text makes a last config
AddLeftOver(walked) ==
  PushIfText(_trimCurrentText(walked.b), blockConfigs \o walked.blockConfigs)

\* the forest and the builder after addDOMNode(node)
AddedDOMNode(node) == AddLeftOver(_toBlockConfigs(<<node>>, Builder))

\* addDOMNode keeping this.contentBlocks
addDOMNode_keepingContentBlocks(node) ==
  \E after \in {AddedDOMNode(node)} :
      /\ contentBlocks' = contentBlocks
      /\ blockConfigs' = after.blockConfigs
      /\ characterList' = after.b.characterList
      /\ currentBlockType' = after.b.currentBlockType
      /\ currentDepth' = after.b.currentDepth
      /\ currentEntity' = after.b.currentEntity
      /\ currentStyle' = after.b.currentStyle
      /\ currentText' = after.b.currentText
      /\ entityMap' = after.b.entityMap
      /\ wrapper' = after.b.wrapper
      /\ nextKey' = after.b.nextKey
      /\ trace' = after.b.trace
      /\ lastCall' = "addDOMNode"
      /\ cacheDropped' = (contentBlocks # <<>>)
      /\ lastNode' = node
      /\ nodesUsed' = nodesUsed + Size(node)
      /\ forestBefore' = Len(blockConfigs)
      /\ UNCHANGED <<experimentalTreeDataSupport, returned, converted>>

addDOMNode(node) ==
  \E after \in {AddedDOMNode(node)} :
      /\ contentBlocks' = <<>>
      /\ blockConfigs' = after.blockConfigs
      /\ characterList' = after.b.characterList
      /\ currentBlockType' = after.b.currentBlockType
      /\ currentDepth' = after.b.currentDepth
      /\ currentEntity' = after.b.currentEntity
      /\ currentStyle' = after.b.currentStyle
      /\ currentText' = after.b.currentText
      /\ entityMap' = after.b.entityMap
      /\ wrapper' = after.b.wrapper
      /\ nextKey' = after.b.nextKey
      /\ trace' = after.b.trace
      /\ lastCall' = "addDOMNode"
      /\ cacheDropped' = (contentBlocks # <<>>)
      /\ lastNode' = node
      /\ nodesUsed' = nodesUsed + Size(node)
      /\ forestBefore' = Len(blockConfigs)
      /\ UNCHANGED <<experimentalTreeDataSupport, returned, converted>>

getContentBlocks ==
  /\ IF Len(contentBlocks) = 0
     THEN IF experimentalTreeDataSupport
          THEN \E tree \in {_toContentBlocks(blockConfigs, NULL,
                                             contentBlocks)} :
                 /\ blockConfigs' = tree.blockConfigs
                 /\ contentBlocks' = tree.contentBlocks
          ELSE /\ blockConfigs' = blockConfigs
               /\ contentBlocks' =
                    _toFlatContentBlocks(blockConfigs, contentBlocks)
     ELSE UNCHANGED <<blockConfigs, contentBlocks>>
  /\ returned' = contentBlocks'
  /\ lastCall' = "getContentBlocks"
  /\ UNCHANGED <<characterList, currentBlockType, currentDepth,
                 currentEntity, currentStyle, currentText, entityMap,
                 wrapper, experimentalTreeDataSupport, nextKey, trace,
                 cacheDropped, lastNode, nodesUsed, converted, forestBefore>>

AddDOMNode ==
  \E n \in 1..(MaxNodes - nodesUsed) : \E node \in Trees[n] : addDOMNode(node)

Next ==
  \/ AddDOMNode
  \/ getContentBlocks
  \/ clear

Spec == Init /\ [][Next]_vars

----------------------------------------------------------------------------
(* The top-level conversion.  DOMBuilder is supplied by the caller: what   *)
(* it returns for the html is an input, <<>> for null and <<body>> for a   *)
(* body element.  DraftEntity and the key generator belong to the module,  *)
(* so a conversion goes on from the registry of the one before.            *)

Body(kids) == Element("body", {}, "", "", "", NoStyle, kids)

\* the bodies of n nodes
Bodies ==
  [n \in 1..MaxNodes |->
     {Body(f) : f \in ForestsOfSize(StructureElements, TextNodes, n - 1)
                        \cup ForestsOfSize(InlineElements,
                                           TextNodes \cup Images, n - 1)}]

\* new ContentBlocksBuilder(blockTypeMap, disambiguate)
NewBuilder ==
  [characterList |-> <<>>, currentBlockType |-> "unstyled",
   currentDepth |-> 0, currentEntity |-> NULL, currentStyle |-> {},
   currentText |-> <<>>, entityMap |-> entityMap, wrapper |-> "ul",
   nextKey |-> nextKey, trace |-> <<>>, openStyleTags |-> <<>>,
   openLinks |-> <<>>, openMalformed |-> <<>>]

\* addDOMNode on the new builder, after the walk
ConvertLeftOver(walked) ==
  PushIfText(_trimCurrentText(walked.b), walked.blockConfigs)

\* getContentBlocks on the new builder: this.contentBlocks is empty
ConvertedContentBlocks(configs) ==
  IF experimentalTreeDataSupport
  THEN _toContentBlocks(configs, NULL, <<>>)
  ELSE [blockConfigs |-> configs,
        contentBlocks |-> _toFlatContentBlocks(configs, <<>>)]

\* the conversion going on with an empty body when DOMBuilder returns null
convertFromHTMLtoContentBlocks_withoutNullTest(safeBody) ==
  \E body \in {IF safeBody = <<>> THEN Body(<<>>) ELSE safeBody[1]} :
  \E after \in {ConvertLeftOver(_toBlockConfigs(<<body>>, NewBuilder))} :
  \E got \in {ConvertedContentBlocks(after.blockConfigs)} :
      /\ converted' = "blocks"
      /\ contentBlocks' = got.contentBlocks
      /\ returned' = got.contentBlocks
      /\ blockConfigs' = got.blockConfigs
      /\ characterList' = after.b.characterList
      /\ currentBlockType' = after.b.currentBlockType
      /\ currentDepth' = after.b.currentDepth
      /\ currentEntity' = after.b.currentEntity
      /\ currentStyle' = after.b.currentStyle
      /\ currentText' = after.b.currentText
      /\ entityMap' = after.b.entityMap
      /\ wrapper' = after.b.wrapper
      /\ nextKey' = after.b.nextKey
      /\ trace' = after.b.trace
      /\ lastCall' = "convertFromHTMLtoContentBlocks"
      /\ cacheDropped' = FALSE
      /\ lastNode' = IF safeBody = <<>> THEN NoNode ELSE body
      /\ nodesUsed' = nodesUsed + Len(safeBody) * Size(body)
      /\ forestBefore' = 0
      /\ UNCHANGED experimentalTreeDataSupport

\* the model's builder is the one the last conversion made; a conversion
\* returning null makes none
convertFromHTMLtoContentBlocks(safeBody) ==
  IF safeBody = <<>>
  THEN /\ converted' = "null"
       /\ lastCall' = "convertFromHTMLtoContentBlocks"
       /\ lastNode' = NoNode
       /\ UNCHANGED <<characterList, blockConfigs, currentBlockType,
                      currentDepth, currentEntity, currentStyle, currentText,
                      entityMap, wrapper, contentBlocks,
                      experimentalTreeDataSupport, nextKey, trace, returned,
                      cacheDropped, nodesUsed, forestBefore>>
  ELSE \E after \in {ConvertLeftOver(_toBlockConfigs(safeBody, NewBuilder))} :
       \E got \in {ConvertedContentBlocks(after.blockConfigs)} :
           /\ converted' = "blocks"
           /\ contentBlocks' = got.contentBlocks
           /\ returned' = got.contentBlocks
           /\ blockConfigs' = got.blockConfigs
           /\ characterList' = after.b.characterList
           /\ currentBlockType' = after.b.currentBlockType
           /\ currentDepth' = after.b.currentDepth
           /\ currentEntity' = after.b.currentEntity
           /\ currentStyle' = after.b.currentStyle
           /\ currentText' = after.b.currentText
           /\ entityMap' = after.b.entityMap
           /\ wrapper' = after.b.wrapper
           /\ nextKey' = after.b.nextKey
           /\ trace' = after.b.trace
           /\ lastCall' = "convertFromHTMLtoContentBlocks"
           /\ cacheDropped' = FALSE
           /\ lastNode' = safeBody[1]
           /\ nodesUsed' = nodesUsed + Size(safeBody[1])
           /\ forestBefore' = 0
           /\ UNCHANGED experimentalTreeDataSupport

ConvertFromHTML ==
  \/ convertFromHTMLtoContentBlocks(<<>>)
  \/ \E n \in 1..(MaxNodes - nodesUsed) : \E body \in Bodies[n] :
       convertFromHTMLtoContentBlocks(<<body>>)

NextConvert == ConvertFromHTML

SpecConvert == Init /\ [][NextConvert]_vars

----------------------------------------------------------------------------
(* What the claims speak of *)

\* the descriptors of a forest, nested ones included, in document order
RECURSIVE Descriptors(_)
Descriptors(configs) ==
  IF configs = <<>> THEN <<>>
  ELSE <<Head(configs)>> \o Descriptors(Head(configs).childConfigs)
         \o Descriptors(Tail(configs))

Range(f) == {f[i] : i \in DOMAIN f}

SameLength(block) == Len(block.characterList) = Len(block.text)

ListItemTypes == {"ordered-list-item", "unordered-list-item"}

TrimSteps == {step \in Range(trace) : step.op = "_trimCurrentText"}

\* the entity-bearing characters of an accumulator, with their entities
EntityChars(acc) ==
  LET idx == {i \in 1..Len(acc.characterList) :
                acc.characterList[i].entity # NULL}
      F[k \in 0..Len(acc.characterList)] ==
        IF k = 0 THEN <<>>
        ELSE IF k \in idx
             THEN Append(F[k - 1],
                         <<acc.text[k], acc.characterList[k].entity>>)
             ELSE F[k - 1]
  IN  F[Len(acc.characterList)]

----------------------------------------------------------------------------
\* C1: the character-metadata list of every block getContentBlocks returns
\* (in both modes) is as long as the block's text; so are the accumulator
\* after every _appendText and _trimCurrentText step, every descriptor of
\* the forest, and the text flat mode builds with its separators.
C1_MetadataLength ==
  /\ \A i \in DOMAIN contentBlocks : SameLength(contentBlocks[i])
  /\ \A i \in DOMAIN returned : SameLength(returned[i])
  /\ \A step \in Range(trace) : SameLength(step.after)
  /\ Len(characterList) = Len(currentText)
  /\ \A config \in Range(Descriptors(blockConfigs)) :
       /\ SameLength(config)
       /\ SameLength(_extractTextFromBlockConfigs(config.childConfigs))

\* a flat block holding an image's two code units and an inserted separator
\* has been returned
C1_Witness ==
  /\ lastCall = "getContentBlocks"
  /\ ~experimentalTreeDataSupport
  /\ \E i \in DOMAIN returned :
       /\ LF \in Range(returned[i].text)
       /\ CAMERA[1] \in Range(returned[i].text)

----------------------------------------------------------------------------
\* C2: every character appended inside an inline-style element carries that
\* element's style, also when the element is nested in one of the same
\* style or holds block elements; and a character carries a style only when
\* it is inside an element of that style (or the style comes from a style
\* attribute, which only font-weight gives in these inputs).
C2_StyleScoping ==
  \A config \in Range(Descriptors(blockConfigs)) :
    \A i \in DOMAIN config.characterList :
      LET meta == config.characterList[i]
      IN  /\ meta.inStyleTags \subseteq meta.style
          /\ meta.style \subseteq meta.inStyleTags \cup {"BOLD"}

----------------------------------------------------------------------------
\* C3: every text character appended between entering and leaving a valid
\* link carries that link's entity, wherever it sits among the link's
\* children; after addDOMNode the current entity is null.
C3_LinkInheritance ==
  /\ currentEntity = NULL
  /\ \A config \in Range(Descriptors(blockConfigs)) :
       \A i \in DOMAIN config.characterList :
         (/\ config.characterList[i].inLink # NULL
          /\ config.text[i] \notin Range(CAMERA))
         => config.characterList[i].entity = config.characterList[i].inLink

----------------------------------------------------------------------------
\* C4: _trimCurrentText keeps a slice of the text and of the metadata; the
\* characters it drops are whitespace with a null entity; the characters
\* with an entity are the same before and after, in order; the text is
\* emptied only when it has no character that is non-whitespace or bears
\* an entity.
Trimmed(before, after) ==
  \E begin \in 0..Len(before.text) : \E end \in begin..Len(before.text) :
    /\ after.text = Slice(before.text, begin, end)
    /\ after.characterList = Slice(before.characterList, begin, end)
    /\ \A i \in (1..begin) \cup ((end + 1)..Len(before.text)) :
         /\ before.text[i] \in WhiteSpace
         /\ before.characterList[i].entity = NULL

C4_EntityPreservation ==
  \A step \in TrimSteps :
    /\ Trimmed(step.before, step.after)
    /\ EntityChars(step.after) = EntityChars(step.before)
    /\ (step.after.text = <<>>) =>
         \A i \in DOMAIN step.before.text :
           /\ step.before.text[i] \in WhiteSpace
           /\ step.before.characterList[i].entity = NULL

\* a trim dropped whitespace and kept an entity-bearing character
C4_Witness ==
  \E step \in TrimSteps :
    /\ Len(step.after.text) < Len(step.before.text)
    /\ EntityChars(step.after) # <<>>

----------------------------------------------------------------------------
\* C5: in flat mode the text of a returned block is the top-level
\* descriptor's text followed by its descendants' texts, with one newline
\* after a descendant's text only when the text accumulated so far is not
\* empty and the descendant's type is not "unstyled".
RECURSIVE SeparatorRuleText(_, _)
SeparatorRuleText(configs, text) ==
  IF configs = <<>> THEN text
  ELSE LET config == Head(configs)
           text1 == text \o config.text
           text2 == IF text1 # <<>> /\ config.type # "unstyled"
                    THEN Append(text1, LF) ELSE text1
       IN  SeparatorRuleText(Tail(configs),
             text2 \o SeparatorRuleText(config.childConfigs, <<>>))

C5_SeparatorRule ==
  (lastCall = "getContentBlocks" /\ ~experimentalTreeDataSupport) =>
    /\ Len(returned) = Len(blockConfigs)
    /\ \A i \in DOMAIN returned :
         returned[i].text =
           blockConfigs[i].text
             \o SeparatorRuleText(blockConfigs[i].childConfigs, <<>>)

----------------------------------------------------------------------------
\* C6: in both modes every returned block whose type is not a list-item
\* type has depth 0.
C6_DepthInvariant ==
  \A i \in DOMAIN returned :
    returned[i].type \notin ListItemTypes => returned[i].depth = 0

----------------------------------------------------------------------------
\* C7: in hierarchical mode getContentBlocks returns one node per
\* descriptor of the forest, in depth-first pre-order; a node with a parent
\* comes after its parent and before every later sibling of its parent.
C7_PreOrder ==
  (lastCall = "getContentBlocks" /\ experimentalTreeDataSupport) =>
    LET all == Descriptors(blockConfigs)
    IN  /\ Len(returned) = Len(all)
        /\ \A i \in DOMAIN returned : returned[i].key = all[i].key
        /\ \A i \in DOMAIN returned :
             returned[i].parent # NULL =>
               \E j \in 1..(i - 1) :
                 /\ returned[j].key = returned[i].parent
                 /\ \A k \in DOMAIN returned :
                      (k > j /\ returned[k].parent = returned[j].parent)
                        => i < k

\* a returned node has a parent, and that parent has a later sibling
C7_Witness ==
  /\ lastCall = "getContentBlocks"
  /\ experimentalTreeDataSupport
  /\ \E i, j, k \in DOMAIN returned :
       /\ returned[i].parent = returned[j].key
       /\ j < k
       /\ returned[k].parent = returned[j].parent

----------------------------------------------------------------------------
\* C8: in hierarchical mode, parent is the key of the enclosing descriptor
\* and null exactly at top level; children lists the keys of the returned
\* nodes whose parent is this node, in order; prevSibling and nextSibling
\* are the neighbours in the enclosing descriptor's childConfigs, null at
\* the ends; A.nextSibling = B exactly when B.prevSibling = A, and then A
\* and B have the same parent.
Keys(configs) == [i \in DOMAIN configs |-> configs[i].key]

\* the returned node of a key
Node(key) == CHOOSE n \in Range(returned) : n.key = key

\* the keys of the returned nodes whose parent is `key`, in order
ReturnedChildren(key) ==
  Keys(SelectSeq(returned, LAMBDA n : n.parent = key))

\* every list of siblings of the forest, with the key of its owner
SiblingLists ==
  {[owner |-> NULL, keys |-> Keys(blockConfigs)]}
    \cup {[owner |-> c.key, keys |-> Keys(c.childConfigs)] :
            c \in Range(Descriptors(blockConfigs))}

C8_Links ==
  (lastCall = "getContentBlocks" /\ experimentalTreeDataSupport) =>
    /\ \A n \in Range(returned) :
         /\ (n.parent = NULL) <=> (n.key \in Range(Keys(blockConfigs)))
         /\ n.children = ReturnedChildren(n.key)
    /\ \A list \in SiblingLists : \A p \in DOMAIN list.keys :
         /\ Node(list.keys[p]).parent = list.owner
         /\ Node(list.keys[p]).prevSibling =
              (IF p = 1 THEN NULL ELSE list.keys[p - 1])
         /\ Node(list.keys[p]).nextSibling =
              (IF p = Len(list.keys) THEN NULL ELSE list.keys[p + 1])
    /\ \A a, b \in Range(returned) :
         /\ (a.nextSibling = b.key) <=> (b.prevSibling = a.key)
         /\ (a.nextSibling = b.key) => a.parent = b.parent

\* a returned node has a parent and a next sibling
C8_Witness ==
  /\ lastCall = "getContentBlocks"
  /\ experimentalTreeDataSupport
  /\ \E n \in Range(returned) : n.parent # NULL /\ n.nextSibling # NULL

----------------------------------------------------------------------------
\* C9: the text of the flat block of a top-level descriptor is the texts
\* hierarchical mode returns for that descriptor and its descendants, in
\* that order, with nothing but single newline separators between or after
\* them.
IsPrefix(s, t) == Len(s) <= Len(t) /\ SubSeq(t, 1, Len(s)) = s

RECURSIVE TextsWithSeparators(_, _)
TextsWithSeparators(flat, texts) ==
  IF texts = <<>> THEN flat = <<>>
  ELSE /\ IsPrefix(Head(texts), flat)
       /\ LET rest == SubSeq(flat, Len(Head(texts)) + 1, Len(flat))
          IN  \/ TextsWithSeparators(rest, Tail(texts))
              \/ /\ rest # <<>>
                 /\ Head(rest) = LF
                 /\ TextsWithSeparators(Tail(rest), Tail(texts))

\* the texts of the nodes hierarchical mode makes of one top-level descriptor
HierarchicalTexts(config) ==
  LET nodes == _toContentBlocks(<<config>>, NULL, <<>>).contentBlocks
  IN  [i \in DOMAIN nodes |-> nodes[i].text]

----------------------------------------------------------------------------
\* C10: addDOMNode only appends to the forest; what getContentBlocks
\* returns is the materialization of the whole forest, without a key
\* twice; two getContentBlocks calls in a row return the same blocks.
Materialized ==
  IF experimentalTreeDataSupport
  THEN _toContentBlocks(blockConfigs, NULL, <<>>).contentBlocks
  ELSE _toFlatContentBlocks(blockConfigs, <<>>)

ReturnedWholeForest ==
  lastCall = "getContentBlocks" =>
    /\ returned = Materialized
    /\ \A i, j \in DOMAIN returned :
         returned[i].key = returned[j].key => i = j

C10_Step ==
  /\ lastCall' = "addDOMNode" => IsPrefix(blockConfigs, blockConfigs')
  /\ (lastCall = "getContentBlocks" /\ lastCall' = "getContentBlocks")
       => returned' = returned

C10_ChainingAndCache == []ReturnedWholeForest /\ [][C10_Step]_vars

\* getContentBlocks has returned blocks of two addDOMNode calls, the second
\* made after an earlier getContentBlocks had filled the cache
C10_Witness ==
  /\ lastCall = "getContentBlocks"
  /\ cacheDropped
  /\ Len(returned) >= 2

----------------------------------------------------------------------------
\* C11: when DOMBuilder returns null, convertFromHTMLtoContentBlocks returns
\* null, and the call registers no entity, generates no key and makes no
\* block: the registry, the key generator and every builder field are as
\* they were before the call.
ConvertedNull ==
  /\ lastCall = "convertFromHTMLtoContentBlocks"
  /\ lastNode = NoNode

C11_Step ==
  ConvertedNull' =>
    /\ converted' = "null"
    /\ entityMap' = entityMap
    /\ nextKey' = nextKey
    /\ blockConfigs' = blockConfigs
    /\ contentBlocks' = contentBlocks
    /\ returned' = returned
    /\ Builder' = Builder

C11_NullReturn ==
  [](ConvertedNull => converted = "null") /\ [][C11_Step]_vars

\* a conversion returned null after an earlier one had registered an entity
C11_Witness ==
  /\ ConvertedNull
  /\ converted = "null"
  /\ entityMap # <<>>

----------------------------------------------------------------------------
(* What the last addDOMNode was given and what it made *)

\* the descriptors the last addDOMNode appended to the forest
Added == SubSeq(blockConfigs, forestBefore + 1, Len(blockConfigs))

IsText(node) == node.nodeName = "#text"
IsContainer(node) == node.nodeName \in {"body", "ol", "ul"}
IsBlockLevel(node) == node.nodeName \in DOMAIN BlockTypeMap

WhitespaceOnly(text) ==
  text # <<>> /\ \A i \in DOMAIN text : text[i] \in WhiteSpace

----------------------------------------------------------------------------
\* C12: a block-level element other than pre whose only child is a
\* whitespace-only text node gives exactly one descriptor, and its text is
\* a single space.
C12_WhitespaceOnlyBlock ==
  (/\ IsBlockLevel(lastNode)
   /\ lastNode.nodeName # "pre"
   /\ Len(lastNode.childNodes) = 1
   /\ IsText(lastNode.childNodes[1])
   /\ WhitespaceOnly(lastNode.childNodes[1].textContent))
  => /\ Len(Added) = 1
     /\ Added[1].text = <<SPACE>>

----------------------------------------------------------------------------
\* C13: outside preformatted context (the added tree holds no pre element)
\* a run of whitespace gives one space: no text of a descriptor holds a
\* newline or two whitespace characters in a row.
RECURSIVE HasPre(_)
HasPre(node) ==
  \/ node.nodeName = "pre"
  \/ \E i \in DOMAIN node.childNodes : HasPre(node.childNodes[i])

Collapsed(text) ==
  /\ LF \notin Range(text)
  /\ \A i \in 1..(Len(text) - 1) :
       ~(text[i] \in WhiteSpace /\ text[i + 1] \in WhiteSpace)

C13_WhitespaceCollapsing ==
  ~HasPre(lastNode) =>
    \A config \in Range(Descriptors(Added)) : Collapsed(config.text)

----------------------------------------------------------------------------
(* The builder fed with block structure only: lists, list items,          *)
(* paragraphs, headers, pre and text.                                      *)

StructureTrees ==
  [n \in 1..MaxNodes |-> TreesOfSize(StructureElements, TextNodes, n)]

AddStructureNode ==
  \E n \in 1..(MaxNodes - nodesUsed) : \E node \in StructureTrees[n] :
    addDOMNode(node)

NextStructure ==
  \/ AddStructureNode
  \/ getContentBlocks
  \/ clear

SpecStructure == Init /\ [][NextStructure]_vars

----------------------------------------------------------------------------
\* C14: the list-item descriptors an added tree gives are, in document
\* order, one per li element, each typed ordered-list-item when the nearest
\* enclosing ol, ul or pre of the element is an ol and unordered-list-item
\* otherwise (also when there is none); so a list item that follows a
\* closed nested list or pre is typed by the list it is directly in.
RECURSIVE ListItemsOf(_, _)
RECURSIVE ListItemsOfAll(_, _)

\* the types the claim gives the li elements of a tree, in document order;
\* `enclosing` is the tag of the nearest ol, ul or pre around the node
ListItemsOf(node, enclosing) ==
  (IF node.nodeName = "li"
   THEN <<IF enclosing = "ol" THEN "ordered-list-item"
          ELSE "unordered-list-item">>
   ELSE <<>>)
  \o ListItemsOfAll(node.childNodes,
                    IF node.nodeName \in {"ol", "ul", "pre"}
                    THEN node.nodeName ELSE enclosing)

ListItemsOfAll(nodes, enclosing) ==
  IF nodes = <<>> THEN <<>>
  ELSE ListItemsOf(Head(nodes), enclosing)
         \o ListItemsOfAll(Tail(nodes), enclosing)

Types(configs) == [i \in DOMAIN configs |-> configs[i].type]

C14_ListItemTypes ==
  SelectSeq(Types(Descriptors(Added)), LAMBDA t : t \in ListItemTypes)
    = ListItemsOf(lastNode, "ul")

\* an ol holding a nested ul and then a list item was added, and the item
\* came out ordered
C14_Witness ==
  /\ lastNode.nodeName = "ol"
  /\ Len(lastNode.childNodes) = 2
  /\ lastNode.childNodes[1].nodeName = "ul"
  /\ lastNode.childNodes[2].nodeName = "li"
  /\ Types(Descriptors(Added)) = <<"ordered-list-item">>

----------------------------------------------------------------------------
(* The builder fed with links, images and text: trees of up to             *)
(* MaxEntityNodes nodes, so that a link can hold an element that holds an  *)
(* image and text.                                                         *)

EntityElements ==
  {Tag("p"),
   Element("a", {}, "", "http://x.com/", "http:", NoStyle, <<>>),
   Element("a", {}, "", "javascript:x", "javascript:", NoStyle, <<>>)}

EntityLeaves == {TextNode(<<"x">>)} \cup Images

EntityTrees ==
  [n \in 1..MaxEntityNodes |-> TreesOfSize(EntityElements, EntityLeaves, n)]

AddEntityNode ==
  \E n \in 1..(MaxEntityNodes - nodesUsed) : \E node \in EntityTrees[n] :
    addDOMNode(node)

NextEntities ==
  \/ AddEntityNode
  \/ getContentBlocks
  \/ clear

SpecEntities == Init /\ [][NextEntities]_vars

----------------------------------------------------------------------------
\* C15: the text characters appended inside an a or img element that is no
\* valid link or image (and not inside a valid link within it) carry the
\* entity that was current when the element was entered.
C15_TransparentMalformed ==
  \A config \in Range(Descriptors(blockConfigs)) :
    \A i \in DOMAIN config.characterList :
      (/\ config.characterList[i].inMalformed # NULL
       /\ config.text[i] \notin Range(CAMERA))
      => config.characterList[i].entity
           = config.characterList[i].inMalformed

----------------------------------------------------------------------------
\* C16: addDOMNode appends to the registry one MUTABLE entity per valid
\* image (IMAGE) and valid link (LINK) of the tree, in document order, and
\* nothing else; getContentBlocks and clear leave the registry as it is; no
\* step removes or changes an entry; every entity on a character of a
\* descriptor or of a returned block is an id of the registry.
RECURSIVE EntitiesOf(_)
RECURSIVE EntitiesOfAll(_)

\* type and mutability of the entities the claim wants for a tree
EntitiesOf(node) ==
  IF isValidImage(node) THEN <<[type |-> "IMAGE", mutability |-> "MUTABLE"]>>
  ELSE (IF isValidAnchor(node)
        THEN <<[type |-> "LINK", mutability |-> "MUTABLE"]>> ELSE <<>>)
       \o EntitiesOfAll(node.childNodes)

EntitiesOfAll(nodes) ==
  IF nodes = <<>> THEN <<>>
  ELSE EntitiesOf(Head(nodes)) \o EntitiesOfAll(Tail(nodes))

TypeAndMutability(map) ==
  [i \in DOMAIN map |->
     [type |-> map[i].type, mutability |-> map[i].mutability]]

\* the entities of the characters of a block or descriptor
Referenced(block) ==
  {block.characterList[i].entity : i \in DOMAIN block.characterList}
    \ {NULL}

RegisteredEntity(block) == Referenced(block) \subseteq DOMAIN entityMap

AllRegistered ==
  /\ \A config \in Range(Descriptors(blockConfigs)) : RegisteredEntity(config)
  /\ \A block \in Range(returned) : RegisteredEntity(block)

C16_Step ==
  /\ IsPrefix(entityMap, entityMap')
  /\ lastCall' = "addDOMNode" =>
       TypeAndMutability(entityMap')
         = TypeAndMutability(entityMap) \o EntitiesOf(lastNode')
  /\ lastCall' # "addDOMNode" => entityMap' = entityMap

C16_AppendOnlyRegistry == []AllRegistered /\ [][C16_Step]_vars

\* after a clear the registry still holds a link no character refers to
\* and an image a returned character refers to
C16_Witness ==
  /\ lastCall = "getContentBlocks"
  /\ nodesUsed > Size(lastNode)
  /\ \E i, j \in DOMAIN entityMap :
       /\ entityMap[i].type = "LINK"
       /\ \A block \in Range(returned) : i \notin Referenced(block)
       /\ entityMap[j].type = "IMAGE"
       /\ \E block \in Range(returned) : j \in Referenced(block)

----------------------------------------------------------------------------
\* C17: in flat mode getContentBlocks returns one block per top-level
\* descriptor of the forest, in forest order, each with the key, type and
\* depth of its descriptor; no other descriptor gives a block.
C17_FlatOnePerTopLevel ==
  (lastCall = "getContentBlocks" /\ ~experimentalTreeDataSupport) =>
    /\ Len(returned) = Len(blockConfigs)
    /\ \A i \in DOMAIN returned :
         /\ returned[i].key = blockConfigs[i].key
         /\ returned[i].type = blockConfigs[i].type
         /\ returned[i].depth = blockConfigs[i].depth
    /\ \A config \in Range(Descriptors(blockConfigs)) :
         (\E block \in Range(returned) : block.key = config.key)
           => config \in Range(blockConfigs)

\* flat mode returned two blocks for a forest of two top-level descriptors
\* one of which has a nested descriptor
C17_Witness ==
  /\ lastCall = "getContentBlocks"
  /\ ~experimentalTreeDataSupport
  /\ Len(returned) = 2
  /\ \E i \in DOMAIN blockConfigs : blockConfigs[i].childConfigs # <<>>

----------------------------------------------------------------------------
\* C18: in tree-hierarchy mode the descriptor of an added li element has
\* the depth of the element's depth class, and 0 when it has none,
\* whatever the element holds.
C18_ListItemDepth ==
  (experimentalTreeDataSupport /\ lastNode.nodeName = "li") =>
    /\ Len(Added) = 1
    /\ Added[1].type \in ListItemTypes
    /\ Added[1].depth = getListItemDepth(lastNode)

----------------------------------------------------------------------------
\* C19: the text appended for a text node is the node's content as it is
\* when the node has a pre ancestor, however far up and whatever lies
\* between; otherwise it is one space for a whitespace-only node and the
\* content with every newline turned into a space for any other.  (The
\* trees of SpecStructure hold no image, so the _appendText steps are the
\* text nodes in document order.)
RECURSIVE TextsOf(_, _)
RECURSIVE TextsOfAll(_, _)

\* what the claim has appended for the text nodes of a tree
TextsOf(node, inPre) ==
  IF IsText(node)
  THEN <<IF inPre THEN node.textContent
         ELSE IF Trim(node.textContent) = <<>> THEN <<SPACE>>
         ELSE ReplaceLF(node.textContent)>>
  ELSE TextsOfAll(node.childNodes, inPre \/ node.nodeName = "pre")

TextsOfAll(nodes, inPre) ==
  IF nodes = <<>> THEN <<>>
  ELSE TextsOf(Head(nodes), inPre) \o TextsOfAll(Tail(nodes), inPre)

\* the texts the _appendText steps of the last addDOMNode appended
AppendedTexts ==
  LET steps == SelectSeq(trace, LAMBDA step : step.op = "_appendText")
  IN  [i \in DOMAIN steps |->
         SubSeq(steps[i].after.text, Len(steps[i].before.text) + 1,
                Len(steps[i].after.text))]

C19_PreformattedDescendants ==
  lastCall = "addDOMNode" => AppendedTexts = TextsOf(lastNode, FALSE)

----------------------------------------------------------------------------
\* C20: an added block-level element (outside pre) whose children are text
\* nodes up to a first block-level child gives one descriptor, and the text
\* of that descriptor is the trimmed text of those leading text nodes.
RECURSIVE LeadingTextNodes(_)
LeadingTextNodes(nodes) ==
  IF nodes = <<>> \/ ~IsText(Head(nodes)) THEN <<>>
  ELSE <<Head(nodes)>> \o LeadingTextNodes(Tail(nodes))

RECURSIVE Concat(_)
Concat(texts) ==
  IF texts = <<>> THEN <<>> ELSE Head(texts) \o Concat(Tail(texts))

\* the element's own leading text
LeadingText(node) ==
  Trim(Concat(TextsOfAll(LeadingTextNodes(node.childNodes), FALSE)))

\* the children are text nodes, then (if any is left) a block-level element
LeadsWithText(node) ==
  LET n == Len(LeadingTextNodes(node.childNodes))
  IN  n < Len(node.childNodes) => IsBlockLevel(node.childNodes[n + 1])

C20_OwnLeadingText ==
  (/\ IsBlockLevel(lastNode)
   /\ lastNode.nodeName # "pre"
   /\ LeadsWithText(lastNode))
  => /\ Len(Added) = 1
     /\ Added[1].text = LeadingText(lastNode)

----------------------------------------------------------------------------
\* C21: between the builder's operations, so after every addDOMNode
\* whatever the tree, currentText and characterList are empty,
\* currentEntity is null, currentDepth is 0 and wrapper is 'ul', the value
\* it had before the call.
C21_Quiescent ==
  /\ currentText = <<>>
  /\ characterList = <<>>
  /\ currentEntity = NULL
  /\ currentDepth = 0
  /\ wrapper = "ul"

\* in tree-hierarchy mode a tree with a pre element was added after an
\* earlier tree, and left a descriptor of depth 2
C21_Witness ==
  /\ lastCall = "addDOMNode"
  /\ experimentalTreeDataSupport
  /\ forestBefore > 0
  /\ HasPre(lastNode)
  /\ \E config \in Range(Descriptors(Added)) : config.depth = 2

----------------------------------------------------------------------------
\* C22: trimming what _trimCurrentText has trimmed changes nothing; when
\* the trimmed text is not empty its first and its last character are each
\* non-whitespace or entity-bearing; and every descriptor made of pending
\* text has a non-empty text with such ends.
CleanEnd(acc, i) ==
  acc.text[i] \notin WhiteSpace \/ acc.characterList[i].entity # NULL

CleanBoundaries(acc) ==
  acc.text # <<>> => CleanEnd(acc, 1) /\ CleanEnd(acc, Len(acc.text))

\* the accumulator after _trimCurrentText on the accumulator acc
TrimmedAgain(acc) ==
  Accumulator(_trimCurrentText(
    [Builder EXCEPT !.currentText = acc.text,
                    !.characterList = acc.characterList]))

C22_TrimIdempotent ==
  /\ \A step \in TrimSteps :
       /\ TrimmedAgain(step.after) = step.after
       /\ CleanBoundaries(step.after)
  /\ \A config \in Range(Descriptors(blockConfigs)) :
       config.pending =>
         /\ config.text # <<>>
         /\ CleanBoundaries(config)

\* a trim dropped whitespace and left text, and a descriptor was made of
\* pending text
C22_Witness ==
  /\ \E step \in TrimSteps :
       /\ step.after.text # <<>>
       /\ Len(step.after.text) < Len(step.before.text)
  /\ \E config \in Range(Descriptors(Added)) : config.pending

----------------------------------------------------------------------------
\* C23: the descriptors an added tree gives that are not made of pending
\* text are, in document order, one per block-level element of the tree,
\* each with the resolved type of its element, whatever its text and its
\* childConfigs; a descriptor made of pending text has type 'unstyled'; no
\* key occurs twice in the forest; and the tree gives as many descriptors
\* as it has block-level elements plus flushes of pending text that
\* trimmed to a non-empty text.
RECURSIVE ResolvedTypesOf(_, _)
RECURSIVE ResolvedTypesOfAll(_, _)

\* the resolved types of the block-level elements of a tree, in document
\* order; `enclosing` is the tag of the nearest ol, ul or pre around the node
ResolvedTypesOf(node, enclosing) ==
  (IF ~IsBlockLevel(node) THEN <<>>
   ELSE IF node.nodeName = "li" THEN ListItemsOf(Tag("li"), enclosing)
   ELSE IF BlockTypeMap[node.nodeName].isString
        THEN <<BlockTypeMap[node.nodeName].value>>
   ELSE <<BlockTypeMap[node.nodeName].value[1]>>)
  \o ResolvedTypesOfAll(node.childNodes,
                        IF node.nodeName \in {"ol", "ul", "pre"}
                        THEN node.nodeName ELSE enclosing)

ResolvedTypesOfAll(nodes, enclosing) ==
  IF nodes = <<>> THEN <<>>
  ELSE ResolvedTypesOf(Head(nodes), enclosing)
         \o ResolvedTypesOfAll(Tail(nodes), enclosing)

\* the descriptors of the added tree made for an element / of pending text
OfElements == SelectSeq(Descriptors(Added), LAMBDA config : ~config.pending)
OfPendingText == SelectSeq(Descriptors(Added), LAMBDA config : config.pending)

\* the _trimCurrentText calls of the last addDOMNode that left text
NonEmptyTrims ==
  SelectSeq(trace, LAMBDA step :
    step.op = "_trimCurrentText" /\ step.after.text # <<>>)

\* every block-level element trims once, before its config is made; the
\* other trims are the flushes of pending text
NonEmptyFlushes ==
  Len(NonEmptyTrims)
    - Len(SelectSeq(OfElements, LAMBDA config : config.text # <<>>))

C23_OneConfigPerBlockElement ==
  /\ \A i, j \in DOMAIN Descriptors(blockConfigs) :
       Descriptors(blockConfigs)[i].key = Descriptors(blockConfigs)[j].key
         => i = j
  /\ \A config \in Range(Descriptors(blockConfigs)) :
       config.pending => config.type = "unstyled"
  /\ lastCall = "addDOMNode" =>
       /\ Types(OfElements) = ResolvedTypesOf(lastNode, "ul")
       /\ Len(OfPendingText) = NonEmptyFlushes
       /\ Len(Descriptors(Added)) =
            Len(ResolvedTypesOf(lastNode, "ul")) + NonEmptyFlushes

\* a list container holding whitespace and then an empty block-level
\* element was added: the flush of the whitespace gave no descriptor, the
\* element gave one
C23_Witness ==
  /\ lastCall = "addDOMNode"
  /\ IsContainer(lastNode)
  /\ Len(lastNode.childNodes) = 2
  /\ WhitespaceOnly(lastNode.childNodes[1].textContent)
  /\ IsBlockLevel(lastNode.childNodes[2])
  /\ \E i \in DOMAIN trace :
       /\ trace[i].op = "_trimCurrentText"
       /\ trace[i].before.text # <<>>
       /\ trace[i].after.text = <<>>
  /\ Len(Descriptors(Added)) = 1
  /\ Added[1].text = <<>>
  /\ ~Added[1].pending

====
